---- MODULE Spec2Model ----
(***************************************************************************)
(* The post store of neonblog (src/database.py) over its SQLite table      *)
(* `posts`, and the Post value object (src/models.py).                     *)
(*                                                                         *)
(* Texts that the code transforms (category, content, markdown_content,    *)
(* media paths, read_time) are sequences of one-character strings, so that *)
(* upper(), split(), join() and the f-string are computed character by     *)
(* character.  Texts the store only passes through (title, color, size,    *)
(* excerpt) are atomic strings.  A timestamp is the number of whole        *)
(* seconds CURRENT_TIMESTAMP shows (its text form 'YYYY-MM-DD HH:MM:SS'    *)
(* orders the same way).                                                   *)
(***************************************************************************)
EXTENDS Integers, Sequences, FiniteSets, TLC

VARIABLES
    columns,   \* the columns of table posts; {} while the table does not exist
    posts,     \* the rows of table posts
    seq,       \* sqlite_sequence: the largest rowid AUTOINCREMENT ever handed out
    now,       \* the wall clock read by CURRENT_TIMESTAMP, in seconds
    everIds,   \* history: every id that was ever the id of a row
    last,      \* the most recent call: its name, arguments and returned value
    requests,  \* the HTTP requests of the editor: where each handler stands
    uuids,     \* how many identifiers uuid.uuid4() has drawn
    rendered   \* history: every text render_markdown was given, with its output

vars == <<columns, posts, seq, now, everIds, last, requests, uuids, rendered>>

\* the state of the web handlers, which no call of the store touches
web == <<requests, uuids, rendered>>

----------------------------------------------------------------------------
(* Bounds of the model. *)

\* the largest rowid the model lets AUTOINCREMENT hand out
MaxSeq == 4
\* the last second the model's clock reaches
MaxTime == 1

----------------------------------------------------------------------------
(* Texts. *)

Whitespace == {" ", "\n", "\t"}

\* n words of one letter separated by single spaces
Words(n) == [i \in 1..(IF n = 0 THEN 0 ELSE 2 * n - 1) |-> IF i % 2 = 1 THEN "w" ELSE " "]

LowerLetters == <<"a","b","c","d","e","f","g","h","i","j","k","l","m",
                  "n","o","p","q","r","s","t","u","v","w","x","y","z">>
UpperLetters == <<"A","B","C","D","E","F","G","H","I","J","K","L","M",
                  "N","O","P","Q","R","S","T","U","V","W","X","Y","Z">>

\* str.upper() on one character: a letter's capital; the sharp s becomes "SS"
UpperChar(c) ==
    IF \E i \in 1..Len(LowerLetters) : LowerLetters[i] = c
    THEN <<UpperLetters[CHOOSE i \in 1..Len(LowerLetters) : LowerLetters[i] = c]>>
    ELSE IF c = "ß" THEN <<"S", "S">> ELSE <<c>>

\* the category stored as it was given, .upper() left out
UpperOmitted(s) == s

RECURSIVE Upper(_)
\* str.upper()
Upper(s) == IF s = <<>> THEN <<>> ELSE UpperChar(Head(s)) \o Upper(Tail(s))

\* len(content.split()): the number of maximal runs of non-whitespace characters
WordCount(s) ==
    Cardinality({i \in 1..Len(s) :
        /\ s[i] \notin Whitespace
        /\ (i = 1 \/ s[i - 1] \in Whitespace)})

Max(a, b) == IF a >= b THEN a ELSE b

DigitChars == <<"0","1","2","3","4","5","6","7","8","9">>

RECURSIVE Decimal(_)
\* str(n) of a natural number, as the f-string formats it
Decimal(n) ==
    IF n < 10 THEN <<DigitChars[n + 1]>>
    ELSE Decimal(n \div 10) \o <<DigitChars[(n % 10) + 1]>>

MinRead == <<" ","m","i","n"," ","r","e","a","d">>

WordsPerMinute == 200

\* the minutes rounded up instead of down
ReadTimeCeiling(content) ==
    Decimal(Max(1, (WordCount(content) + WordsPerMinute - 1) \div WordsPerMinute)) \o MinRead

\* f"{max(1, word_count // 200)} min read"
ReadTime(content) == Decimal(Max(1, WordCount(content) \div WordsPerMinute)) \o MinRead

RECURSIVE Join(_)
\* ','.join(media_files)
Join(list) ==
    IF list = <<>> THEN <<>>
    ELSE IF Len(list) = 1 THEN list[1]
    ELSE list[1] \o <<",">> \o Join(Tail(list))

\* str.lower() on one character
LowerChar(c) ==
    IF \E i \in 1..Len(UpperLetters) : UpperLetters[i] = c
    THEN LowerLetters[CHOOSE i \in 1..Len(UpperLetters) : UpperLetters[i] = c]
    ELSE c

\* str.lower()
Lower(s) == [i \in 1..Len(s) |-> LowerChar(s[i])]

\* str.strip(): the text from its first to its last non-whitespace character
Strip(s) ==
    LET keep == {i \in 1..Len(s) : s[i] \notin Whitespace}
    IN  IF keep = {} THEN <<>>
        ELSE SubSeq(s, CHOOSE i \in keep : \A j \in keep : i <= j,
                       CHOOSE i \in keep : \A j \in keep : i >= j)

RECURSIVE Split(_)
\* str.split(','): the pieces between the commas, empty pieces included
Split(s) ==
    IF \A i \in 1..Len(s) : s[i] # ","
    THEN <<s>>
    ELSE LET i == CHOOSE k \in 1..Len(s) :
                      s[k] = "," /\ \A j \in 1..(k - 1) : s[j] # ","
         IN  <<SubSeq(s, 1, i - 1)>> \o Split(SubSeq(s, i + 1, Len(s)))

\* Path(name).suffix: the last component of the path from its last dot on,
\* empty when that dot is its first or its last character or there is none
Suffix(name) ==
    LET slashes == {i \in 1..Len(name) : name[i] = "/"}
        start == IF slashes = {} THEN 1
                 ELSE 1 + CHOOSE i \in slashes : \A j \in slashes : i >= j
        final == SubSeq(name, start, Len(name))
        dots == {i \in 1..Len(final) : final[i] = "."}
        i == IF dots = {} THEN 0 ELSE CHOOSE k \in dots : \A j \in dots : k >= j
    IN  IF 1 < i /\ i < Len(final) THEN SubSeq(final, i, Len(final)) ELSE <<>>

----------------------------------------------------------------------------
(* The table and the Post value. *)

AllColumns == {"id", "title", "category", "color", "size", "excerpt", "content",
               "markdown_content", "media_files", "created_at", "updated_at",
               "read_time"}

\* the values Optional[Post] takes: None is the empty set, a post p is {p}
None == {}
Some(p) == {p}

\* the sample_posts list; the two long texts of each post are kept by their
\* word counts (124/136, 55/63 and 16/23 words)
SamplePosts == <<
    [title |-> "The Future of Web Development: HTMX and Hypermedia",
     category |-> <<"T","E","C","H","N","O","L","O","G","Y">>,
     color |-> "neon-pink", size |-> "bento-large",
     excerpt |-> "Exploring how HTMX is changing the way we think...",
     content |-> Words(124), markdown_content |-> Words(136),
     media_files |-> <<>>, read_time |-> <<"5">> \o MinRead],
    [title |-> "Neon Aesthetics in Modern UI",
     category |-> <<"D","E","S","I","G","N">>,
     color |-> "neon-cyan", size |-> "bento-medium",
     excerpt |-> "Why glowing colors are making a comeback...",
     content |-> Words(55), markdown_content |-> Words(63),
     media_files |-> <<>>, read_time |-> <<"3">> \o MinRead],
    [title |-> "Quick CSS Tricks",
     category |-> <<"T","I","P","S">>,
     color |-> "neon-purple", size |-> "bento-small",
     excerpt |-> "",
     content |-> Words(16), markdown_content |-> Words(23),
     media_files |-> <<>>, read_time |-> <<"2">> \o MinRead] >>

\* NewRow with the content and markdown_content values bound to each other's
\* column, as a slip in the order of the INSERT's parameter tuple would
NewRowSwapped(id, t, v) ==
    [id |-> id, title |-> v.title, category |-> v.category, color |-> v.color,
     size |-> v.size, excerpt |-> v.excerpt, content |-> v.markdown_content,
     markdown_content |-> v.content, media_files |-> v.media_files,
     created_at |-> t, updated_at |-> t, read_time |-> v.read_time]

\* the row an INSERT of the nine named columns makes: id from AUTOINCREMENT,
\* created_at and updated_at from DEFAULT CURRENT_TIMESTAMP
NewRow(id, t, v) ==
    [id |-> id, title |-> v.title, category |-> v.category, color |-> v.color,
     size |-> v.size, excerpt |-> v.excerpt, content |-> v.content,
     markdown_content |-> v.markdown_content, media_files |-> v.media_files,
     created_at |-> t, updated_at |-> t, read_time |-> v.read_time]

\* INTEGER PRIMARY KEY without AUTOINCREMENT: one more than the largest rowid
\* now in the table
NextRowidOfTable(rows, s) ==
    LET used == {r.id : r \in rows} \cup {0}
    IN  (CHOOSE m \in used : \A x \in used : x <= m) + 1

\* INTEGER PRIMARY KEY AUTOINCREMENT: one more than the largest rowid ever used
NextRowid(rows, s) ==
    LET used == {r.id : r \in rows} \cup {s}
    IN  (CHOOSE m \in used : \A x \in used : x <= m) + 1

\* _row_to_post: the Post built from a row (updated_at is not part of a Post)
RowToPost(row) ==
    [id |-> row.id, title |-> row.title, category |-> row.category,
     color |-> row.color, size |-> row.size, excerpt |-> row.excerpt,
     content |-> row.content, markdown_content |-> row.markdown_content,
     media_files |-> row.media_files, created_at |-> row.created_at,
     read_time |-> row.read_time]

\* Post.get_media_list: the pieces of media_files between commas, stripped,
\* the empty ones dropped
GetMediaList(post) ==
    IF post.media_files = <<>> THEN <<>>
    ELSE LET pieces == Split(post.media_files)
             stripped == [i \in 1..Len(pieces) |-> Strip(pieces[i])]
             NotEmpty(f) == f # <<>>
         IN  SelectSeq(stripped, NotEmpty)

\* Post.has_markdown
HasMarkdown(post) == Strip(post.markdown_content) # <<>>

\* the SELECT with its WHERE clause left out: fetchone takes the first row
SelectFirstRow(rows, id) ==
    IF rows # {}
    THEN Some(RowToPost(CHOOSE r \in rows : \A q \in rows : r.id <= q.id))
    ELSE None

\* SELECT * FROM posts WHERE id = ?, fetchone, as an Optional[Post]
SelectById(rows, id) ==
    IF \E r \in rows : r.id = id
    THEN Some(RowToPost(CHOOSE r \in rows : r.id = id))
    ELSE None

RECURSIVE OrderByCreatedAtAsc(_)
\* ORDER BY created_at ASC, the direction keyword mistaken
OrderByCreatedAtAsc(rows) ==
    IF rows = {} THEN {<<>>}
    ELSE LET oldest == {r \in rows : \A o \in rows : r.created_at <= o.created_at}
         IN  UNION {{<<r>> \o rest : rest \in OrderByCreatedAtAsc(rows \ {r})} :
                    r \in oldest}

RECURSIVE OrderByCreatedAtDesc(_)
\* SELECT * FROM posts ORDER BY created_at DESC: every order the engine may
\* return, rows of equal created_at in any order
OrderByCreatedAtDesc(rows) ==
    IF rows = {} THEN {<<>>}
    ELSE LET newest == {r \in rows : \A o \in rows : o.created_at <= r.created_at}
         IN  UNION {{<<r>> \o rest : rest \in OrderByCreatedAtDesc(rows \ {r})} :
                    r \in newest}

\* ALTER TABLE posts ADD COLUMN c: fails on a column the table has
AlterAddColumn(cols, c) ==
    IF c \in cols THEN [columns |-> cols, error |-> "OperationalError"]
    ELSE [columns |-> cols \cup {c}, error |-> "none"]

\* the try with an except clause that does not name the error ALTER raises
TryAddColumnUncaught(cols, c) ==
    LET r == AlterAddColumn(cols, c)
    IN  [columns |-> r.columns, raised |-> r.error # "none"]

\* try: ALTER ... except sqlite3.OperationalError: pass
TryAddColumn(cols, c) ==
    LET r == AlterAddColumn(cols, c)
    IN  [columns |-> r.columns,
         raised |-> r.error \notin {"none", "OperationalError"}]

----------------------------------------------------------------------------
(* The state after construction: no database file yet. *)

Call(op, id, args, ret, raised) ==
    [op |-> op, id |-> id, args |-> args, ret |-> ret, raised |-> raised]

\* the requests the model follows
Requests == {"r1", "r2"}

\* the fields of the editor's form, before anything is entered
NoForm ==
    [title |-> "", category |-> <<>>, color |-> "", size |-> "", excerpt |-> "",
     content |-> <<>>]

\* a request that has not been sent
IdleRequest ==
    [pc |-> "idle", post_id |-> 0, form |-> NoForm, files |-> <<>>,
     file_path |-> <<>>, media_files |-> <<>>, status |-> 0, opened |-> None]

WebInit ==
    /\ requests = [r \in Requests |-> IdleRequest]
    /\ uuids = 0
    /\ rendered = {}

Init ==
    /\ columns = {}
    /\ posts = {}
    /\ seq = 0
    /\ now = 0
    /\ everIds = {}
    /\ last = Call("none", 0, <<>>, None, FALSE)
    /\ WebInit

\* a second of the wall clock passes
Tick ==
    /\ now < MaxTime
    /\ now' = now + 1
    /\ last' = Call("tick", 0, <<>>, None, FALSE)
    /\ UNCHANGED <<columns, posts, seq, everIds>>

\* _insert_sample_posts: three INSERTs, each reading the clock when it runs
InsertSamplePosts(rows, s, t1, t2, t3) ==
    LET id1 == NextRowid(rows, s)
        r1 == rows \cup {NewRow(id1, t1, SamplePosts[1])}
        id2 == NextRowid(r1, id1)
        r2 == r1 \cup {NewRow(id2, t2, SamplePosts[2])}
        id3 == NextRowid(r2, id2)
    IN  [rows |-> r2 \cup {NewRow(id3, t3, SamplePosts[3])}, seq |-> id3]

\* init_db, run by the application's startup handler
InitDb ==
    LET created == IF columns = {} THEN AllColumns ELSE columns
        m1 == TryAddColumn(created, "markdown_content")
        m2 == TryAddColumn(m1.columns, "updated_at")
    IN  IF m1.raised
        THEN /\ columns' = created
             /\ last' = Call("init", 0, <<>>, None, TRUE)
             /\ UNCHANGED <<posts, seq, now, everIds>>
        ELSE IF m2.raised
        THEN /\ columns' = m1.columns
             /\ last' = Call("init", 0, <<>>, None, TRUE)
             /\ UNCHANGED <<posts, seq, now, everIds>>
        ELSE IF Cardinality(posts) = 0
        THEN \E t2 \in now..MaxTime : \E t3 \in t2..MaxTime :
             LET ins == InsertSamplePosts(posts, seq, now, t2, t3)
             IN  /\ ins.seq <= MaxSeq
                 /\ columns' = m2.columns
                 /\ posts' = ins.rows
                 /\ seq' = ins.seq
                 /\ now' = t3
                 /\ everIds' = everIds \cup {r.id : r \in ins.rows}
                 /\ last' = Call("init", 0, <<>>, None, FALSE)
        ELSE /\ columns' = m2.columns
             /\ last' = Call("init", 0, <<>>, None, FALSE)
             /\ UNCHANGED <<posts, seq, now, everIds>>

\* create_post
CreatePost(a) ==
    /\ columns # {}
    /\ LET read_time == ReadTime(a.content)
           media_str == Join(a.media_files)
           post_id == NextRowid(posts, seq)
           rows == posts \cup
                   {NewRow(post_id, now,
                           [title |-> a.title, category |-> Upper(a.category),
                            color |-> a.color, size |-> a.size,
                            excerpt |-> a.excerpt, content |-> a.content,
                            markdown_content |-> a.markdown_content,
                            media_files |-> media_str, read_time |-> read_time])}
       IN  /\ post_id <= MaxSeq
           /\ posts' = rows
           /\ seq' = post_id
           /\ everIds' = everIds \cup {post_id}
           /\ last' = Call("create", post_id, a, SelectById(rows, post_id), FALSE)
    /\ UNCHANGED <<columns, now>>

\* the row an INSERT OR REPLACE would leave: the defaults of created_at and
\* updated_at are taken again
ReplacedRow(r, t, a) ==
    [r EXCEPT !.title = a.title, !.category = Upper(a.category),
              !.color = a.color, !.size = a.size, !.excerpt = a.excerpt,
              !.content = a.content, !.markdown_content = a.markdown_content,
              !.media_files = Join(a.media_files),
              !.read_time = ReadTime(a.content), !.updated_at = t,
              !.created_at = t]

\* the UPDATE without its line updated_at = CURRENT_TIMESTAMP
UnstampedRow(r, t, a) ==
    [r EXCEPT !.title = a.title, !.category = Upper(a.category),
              !.color = a.color, !.size = a.size, !.excerpt = a.excerpt,
              !.content = a.content, !.markdown_content = a.markdown_content,
              !.media_files = Join(a.media_files),
              !.read_time = ReadTime(a.content)]

\* the UPDATE without its line read_time = ?: the label of the old content stays
StaleReadTimeRow(r, t, a) ==
    [r EXCEPT !.title = a.title, !.category = Upper(a.category),
              !.color = a.color, !.size = a.size, !.excerpt = a.excerpt,
              !.content = a.content, !.markdown_content = a.markdown_content,
              !.media_files = Join(a.media_files), !.updated_at = t]

\* the row UPDATE ... SET writes over r
UpdatedRow(r, t, a) ==
    [r EXCEPT !.title = a.title, !.category = Upper(a.category),
              !.color = a.color, !.size = a.size, !.excerpt = a.excerpt,
              !.content = a.content, !.markdown_content = a.markdown_content,
              !.media_files = Join(a.media_files),
              !.read_time = ReadTime(a.content), !.updated_at = t]

\* the UPDATE with its WHERE clause left out: every row is written
UpdateNoWhere(rows, id, t, a) == {UpdatedRow(r, t, a) : r \in rows}

\* UPDATE posts SET ... WHERE id = ?
UpdateWhereId(rows, id, t, a) ==
    {IF r.id = id THEN UpdatedRow(r, t, a) ELSE r : r \in rows}

\* update_post
UpdatePost(id, a) ==
    /\ columns # {}
    /\ LET rows == UpdateWhereId(posts, id, now, a)
       IN  /\ posts' = rows
           /\ last' = Call("update", id, a, SelectById(rows, id), FALSE)
    /\ UNCHANGED <<columns, seq, now, everIds>>

\* the DELETE with its WHERE clause left out: every row goes
DeleteNoWhere(rows, id) == {}

\* DELETE FROM posts WHERE id = ?
DeleteWhereId(rows, id) == {r \in rows : r.id # id}

\* delete_post: cursor.rowcount > 0
DeletePost(id) ==
    /\ columns # {}
    /\ LET rowcount == Cardinality(posts) - Cardinality(DeleteWhereId(posts, id))
       IN  /\ posts' = DeleteWhereId(posts, id)
           /\ last' = Call("delete", id, <<>>, rowcount > 0, FALSE)
    /\ UNCHANGED <<columns, seq, now, everIds>>

\* get_post_by_id
GetPostById(id) ==
    /\ columns # {}
    /\ last' = Call("get", id, <<>>, SelectById(posts, id), FALSE)
    /\ UNCHANGED <<columns, posts, seq, now, everIds>>

\* get_all_posts: a read of the table; the lists it may return
GetAllPosts(rows) ==
    {[i \in 1..Len(o) |-> RowToPost(o[i])] : o \in OrderByCreatedAtDesc(rows)}

\* get_latest_post: ORDER BY created_at DESC LIMIT 1; the values it may return
GetLatestPost(rows) ==
    {IF o = <<>> THEN None ELSE Some(RowToPost(o[1])) : o \in OrderByCreatedAtDesc(rows)}

----------------------------------------------------------------------------
(* The markdown renderer and the upload loop of the handlers (src/main.py). *)
(* An HTML tag is one element of a text.                                     *)

BlockTags == {"<p>", "<h1 id=\""}

\* markdown2.markdown(text, extras=MARKDOWN_EXTRAS) on the texts of the model:
\* a block of HTML comes back as it is; a line "# x" is a level-one heading;
\* any other line is a paragraph, an empty one when there is nothing but
\* whitespace; the fragment always ends with a newline
Markdown2(text) ==
    LET body == Strip(text)
    IN  IF body # <<>> /\ body[1] \in BlockTags
        THEN body \o <<"\n">>
        ELSE IF Len(body) > 2 /\ body[1] = "#" /\ body[2] = " "
        THEN LET heading == Strip(SubSeq(body, 3, Len(body)))
             IN  <<"<h1 id=\"">> \o Lower(heading) \o <<"\">">> \o heading
                 \o <<"</h1>", "\n">>
        ELSE <<"<p>">> \o body \o <<"</p>", "\n">>

\* render_markdown
RenderMarkdown(text) == IF text = <<>> THEN <<>> ELSE Markdown2(text)

PreviewPlaceholder == <<"<p>", "S","t","a","r","t"," ","t","y","p","i","n","g", "</p>">>

\* preview_markdown
PreviewMarkdown(content) ==
    IF Strip(content) = <<>> THEN PreviewPlaceholder ELSE RenderMarkdown(content)

StartsWith(s, prefix) ==
    Len(s) >= Len(prefix) /\ SubSeq(s, 1, Len(prefix)) = prefix

UploadDir == <<"u","p","l","o","a","d","s">>
ImagesDir == <<"i","m","a","g","e","s">>
VideosDir == <<"v","i","d","e","o","s">>
ImageType == <<"i","m","a","g","e","/">>
VideoType == <<"v","i","d","e","o","/">>

\* str(uuid.uuid4()) of the n-th identifier drawn: a text of hexadecimal
\* digits, unlike every other one
Uuid4(n) == Decimal(n)

\* the file is one the upload loop saves: it has a name and its content type
\* is an image's or a video's
Accepted(file) ==
    /\ file.filename # <<>>
    /\ \/ StartsWith(file.content_type, ImageType)
       \/ StartsWith(file.content_type, VideoType)

\* the path the upload loop saves the file under, n uuids having been drawn
FilePath(file, n) ==
    LET file_ext == Lower(Suffix(file.filename))
        unique_filename == Uuid4(n + 1) \o file_ext
        dir == IF StartsWith(file.content_type, ImageType) THEN ImagesDir
               ELSE VideosDir
    IN  UploadDir \o <<"/">> \o dir \o <<"/">> \o unique_filename

----------------------------------------------------------------------------
(* The calls the model makes. *)

MediaA == <<"u","/","a",".","p","n","g">>
MediaB == <<"u","/","b",".","m","p","4">>

ArgsNews ==
    [title |-> "Hello", category |-> <<"N","e","w","s">>, color |-> "neon-green",
     size |-> "bento-wide", excerpt |-> "", content |-> <<"w">>,
     media_files |-> <<>>, markdown_content |-> <<>>]

ArgsTips ==
    [title |-> "World", category |-> <<"t","i","p","s">>, color |-> "neon-orange",
     size |-> "bento-tall", excerpt |-> "teaser",
     content |-> <<" ","w","\n","\n","w","w"," ">>,
     media_files |-> <<MediaA, MediaB>>, markdown_content |-> <<"#"," ","w">>]

CreateInputs == {ArgsNews, ArgsTips}
UpdateInputs == {ArgsTips}

\* ids a caller may ask for: every id handed out so far and the next one
Ids == 1..(seq + 1)

Next ==
    \/ Tick /\ UNCHANGED web
    \/ InitDb /\ UNCHANGED web
    \/ \E a \in CreateInputs : CreatePost(a) /\ UNCHANGED web
    \/ \E id \in Ids : \E a \in UpdateInputs : UpdatePost(id, a) /\ UNCHANGED web
    \/ \E id \in Ids : DeletePost(id) /\ UNCHANGED web

Spec == Init /\ [][Next]_vars

(* A store whose sample posts were all deleted, given posts of many shapes   *)
(* within one second.                                                        *)

Categories ==
    {<<"t","i","p","s">>, <<"T","I","P","S">>, <<"N","e","w","s">>,
     <<"s","t","r","a","ß","e">>, <<"a","-","1"," ","z">>, <<>>}

MediaLists == {<<>>, <<MediaA>>, <<MediaA, MediaB>>, <<MediaB, MediaA, MediaB>>}

\* a content long enough for a read_time other than the shortest
LongRead == Words(2 * WordsPerMinute)

WideInputs ==
    {ArgsNews, [ArgsNews EXCEPT !.content = LongRead]}
    \cup {[ArgsTips EXCEPT !.category = c] : c \in Categories}
    \cup {[ArgsTips EXCEPT !.media_files = m] : m \in MediaLists}

InitEmptied ==
    /\ columns = AllColumns
    /\ posts = {}
    /\ seq = Len(SamplePosts)
    /\ now = 0
    /\ everIds = 1..Len(SamplePosts)
    /\ last = Call("delete", Len(SamplePosts), <<>>, TRUE, FALSE)
    /\ WebInit

\* the last sample post's id, the ids handed out since, and the next one
LateIds == Len(SamplePosts)..(seq + 1)

NextInputs ==
    \/ \E a \in WideInputs : CreatePost(a) /\ UNCHANGED web
    \/ \E id \in LateIds : \E a \in WideInputs : UpdatePost(id, a) /\ UNCHANGED web
    \/ \E id \in LateIds : DeletePost(id) /\ UNCHANGED web
    \/ \E id \in LateIds : GetPostById(id) /\ UNCHANGED web

SpecInputs == InitEmptied /\ [][NextInputs]_vars

(* The same store given contents of many lengths.                            *)

\* word counts around the multiples of 200
WordCounts == {0, 1, 199, 200, 201, 399, 400, 401}

\* texts of those many words, and texts with stray whitespace
Contents ==
    {Words(n) : n \in WordCounts}
    \cup {<<" ">>, <<"\n", "\t">>, <<" ", "w", "\n", "\n", "w", "w", " ">>}

ContentInputs == {[ArgsNews EXCEPT !.content = c] : c \in Contents}

NextReadTime ==
    \/ \E a \in ContentInputs : CreatePost(a) /\ UNCHANGED web
    \/ \E id \in LateIds : \E a \in ContentInputs : UpdatePost(id, a) /\ UNCHANGED web
    \/ \E id \in LateIds : DeletePost(id) /\ UNCHANGED web

SpecReadTime == InitEmptied /\ [][NextReadTime]_vars

----------------------------------------------------------------------------
(* The handlers of the markdown editor (src/main.py) over the store.  A      *)
(* handler runs without interruption up to an await; update_markdown_post    *)
(* awaits inside its upload loop, once per file it saves.                    *)

RECURSIVE Loop(_, _)
\* the upload loop from one file of the form on, n uuids having been drawn:
\* it passes the files it does not save and stops at the first one it saves,
\* whose path it has made, or at the end of the files
Loop(files, n) ==
    IF files = <<>>
    THEN [files |-> <<>>, uuids |-> n, file_path |-> <<>>, awaiting |-> FALSE]
    ELSE IF Head(files).filename = <<>> THEN Loop(Tail(files), n)
    ELSE IF Accepted(Head(files))
    THEN [files |-> Tail(files), uuids |-> n + 1,
          file_path |-> FilePath(Head(files), n), awaiting |-> TRUE]
    ELSE Loop(Tail(files), n + 1)

RECURSIVE SaveAll(_, _, _)
\* the upload loop run to its end: the paths of the saved files appended
SaveAll(media_files, files, n) ==
    LET l == Loop(files, n)
    IN  IF l.awaiting
        THEN SaveAll(Append(media_files, l.file_path), l.files, l.uuids)
        ELSE [media_files |-> media_files, uuids |-> l.uuids]

\* the arguments the markdown handlers give create_post and update_post
MarkdownArgs(form, media_files) ==
    [title |-> form.title, category |-> form.category, color |-> form.color,
     size |-> form.size, excerpt |-> form.excerpt,
     content |-> RenderMarkdown(form.content), media_files |-> media_files,
     markdown_content |-> form.content]

\* a direct call of render_markdown
RenderCall(text) ==
    /\ last' = Call("render", 0, text, Some(RenderMarkdown(text)), FALSE)
    /\ rendered' = rendered \cup {<<text, RenderMarkdown(text)>>}
    /\ UNCHANGED <<columns, posts, seq, now, everIds, requests, uuids>>

\* POST /preview
PreviewCall(content) ==
    /\ last' = Call("preview", 0, content, Some(PreviewMarkdown(content)), FALSE)
    /\ rendered' = IF Strip(content) = <<>> THEN rendered
                   ELSE rendered \cup {<<content, RenderMarkdown(content)>>}
    /\ UNCHANGED <<columns, posts, seq, now, everIds, requests, uuids>>

\* POST /posts/create-markdown: its uploads touch nothing another request
\* reads, so the handler is one step
CreateMarkdownPost(form, files) ==
    LET up == SaveAll(<<>>, files, uuids)
    IN  /\ CreatePost(MarkdownArgs(form, up.media_files))
        /\ uuids' = up.uuids
        /\ rendered' = rendered \cup {<<form.content, RenderMarkdown(form.content)>>}
        /\ UNCHANGED requests

\* GET /editor?post_id=id for a post of the store: the form the browser shows
EditorPage(r, id) ==
    /\ requests[r].pc = "idle"
    /\ SelectById(posts, id) # None
    /\ GetPostById(id)
    /\ LET post == CHOOSE p \in SelectById(posts, id) : TRUE
       IN  requests' = [requests EXCEPT ![r] =
               [@ EXCEPT !.pc = "editing", !.post_id = id, !.opened = Some(post),
                         !.form = [title |-> post.title,
                                   category |-> Lower(post.category),
                                   color |-> post.color, size |-> post.size,
                                   excerpt |-> post.excerpt,
                                   content |-> post.content]]]
    /\ UNCHANGED <<uuids, rendered>>

\* what a request may submit: the editor's form as it was loaded, or a form
\* typed for any id
Submissions(r, ids, forms) ==
    IF requests[r].pc = "editing"
    THEN {[post_id |-> requests[r].post_id, form |-> requests[r].form]}
    ELSE {[post_id |-> id, form |-> f] : id \in ids, f \in forms}

\* PUT /posts/{post_id}/update-markdown, no row of that id: HTTPException 404
UpdateMarkdownMissing(r, sub) ==
    /\ requests[r].pc \in {"idle", "editing"}
    /\ SelectById(posts, sub.post_id) = None
    /\ GetPostById(sub.post_id)
    /\ requests' = [requests EXCEPT ![r] =
           [@ EXCEPT !.pc = "done", !.post_id = sub.post_id, !.form = sub.form,
                     !.status = 404]]
    /\ UNCHANGED <<uuids, rendered>>

\* the handler from its last await, or from its start when it saves no file,
\* to its response: render_markdown, update_post whose result it does not
\* look at, and status 200
RespondUpdated(r, post_id, form, media_files, n) ==
    /\ UpdatePost(post_id, MarkdownArgs(form, media_files))
    /\ requests' = [requests EXCEPT ![r] =
           [@ EXCEPT !.pc = "done", !.post_id = post_id, !.form = form,
                     !.files = <<>>, !.file_path = <<>>,
                     !.media_files = media_files, !.status = 200]]
    /\ uuids' = n
    /\ rendered' = rendered \cup {<<form.content, RenderMarkdown(form.content)>>}

\* PUT /posts/{post_id}/update-markdown with no file to save
UpdateMarkdownDirect(r, sub, files) ==
    /\ requests[r].pc \in {"idle", "editing"}
    /\ SelectById(posts, sub.post_id) # None
    /\ ~Loop(files, uuids).awaiting
    /\ LET post == CHOOSE p \in SelectById(posts, sub.post_id) : TRUE
       IN  RespondUpdated(r, sub.post_id, sub.form, GetMediaList(post),
                          Loop(files, uuids).uuids)

\* PUT /posts/{post_id}/update-markdown up to the await of its first upload:
\* the post is read and its media list kept in the handler
UpdateMarkdownBegin(r, sub, files) ==
    /\ requests[r].pc \in {"idle", "editing"}
    /\ SelectById(posts, sub.post_id) # None
    /\ Loop(files, uuids).awaiting
    /\ GetPostById(sub.post_id)
    /\ LET post == CHOOSE p \in SelectById(posts, sub.post_id) : TRUE
           l == Loop(files, uuids)
       IN  /\ requests' = [requests EXCEPT ![r] =
                  [@ EXCEPT !.pc = "uploading", !.post_id = sub.post_id,
                            !.form = sub.form, !.files = l.files,
                            !.file_path = l.file_path,
                            !.media_files = GetMediaList(post)]]
           /\ uuids' = l.uuids
    /\ UNCHANGED rendered

\* an upload is written and its path appended; the loop reaches another file
\* to save
UploadNext(r) ==
    /\ requests[r].pc = "uploading"
    /\ Loop(requests[r].files, uuids).awaiting
    /\ LET l == Loop(requests[r].files, uuids)
       IN  /\ requests' = [requests EXCEPT ![r] =
                  [@ EXCEPT !.files = l.files, !.file_path = l.file_path,
                            !.media_files = Append(@, requests[r].file_path)]]
           /\ uuids' = l.uuids
    /\ UNCHANGED <<columns, posts, seq, now, everIds, last, rendered>>

\* the last upload is written and its path appended; the handler updates the
\* post and responds
UpdateMarkdownFinish(r) ==
    /\ requests[r].pc = "uploading"
    /\ ~Loop(requests[r].files, uuids).awaiting
    /\ RespondUpdated(r, requests[r].post_id, requests[r].form,
                      Append(requests[r].media_files, requests[r].file_path),
                      Loop(requests[r].files, uuids).uuids)

ImagePng == ImageType \o <<"p","n","g">>
FilePng == [filename |-> <<"a",".","P","N","G">>, content_type |-> ImagePng]
FileMp4 == [filename |-> <<"b",".","m","p","4">>,
            content_type |-> VideoType \o <<"m","p","4">>]
FileTxt == [filename |-> <<"n",".","t","x","t">>,
            content_type |-> <<"t","e","x","t","/","p","l","a","i","n">>]
FileUnnamed == [filename |-> <<>>, content_type |-> ImagePng]
\* names a client may give its uploads: a comma, or a space at the end, in
\* the extension
FileComma == [filename |-> <<"c",".","j","p",",","g">>, content_type |-> ImagePng]
FileSpace == [filename |-> <<"d",".","p","n","g"," ">>, content_type |-> ImagePng]

FormHeading ==
    [title |-> "Hello", category |-> <<"n","e","w","s">>, color |-> "neon-green",
     size |-> "bento-wide", excerpt |-> "", content |-> <<"#"," ","w">>]
FormParagraph ==
    [title |-> "World", category |-> <<"t","i","p","s">>, color |-> "neon-orange",
     size |-> "bento-tall", excerpt |-> "teaser", content |-> <<"w"," ","w">>]

CreateForms == {FormHeading}
CreateFiles == {<<>>, <<FilePng>>, <<FileComma>>, <<FileSpace, FileMp4>>}
UpdateForms == {FormParagraph}
UpdateFiles == {<<>>, <<FileTxt, FilePng>>, <<FileMp4, FileUnnamed, FilePng>>}

NextWeb ==
    \/ \E f \in CreateForms : \E files \in CreateFiles : CreateMarkdownPost(f, files)
    \/ \E r \in Requests : \E id \in LateIds : EditorPage(r, id)
    \/ \E r \in Requests : \E sub \in Submissions(r, LateIds, UpdateForms) :
           UpdateMarkdownMissing(r, sub)
    \/ \E r \in Requests : \E sub \in Submissions(r, LateIds, UpdateForms) :
           \E files \in UpdateFiles : UpdateMarkdownDirect(r, sub, files)
    \/ \E r \in Requests : \E sub \in Submissions(r, LateIds, UpdateForms) :
           \E files \in UpdateFiles : UpdateMarkdownBegin(r, sub, files)
    \/ \E r \in Requests : UploadNext(r)
    \/ \E r \in Requests : UpdateMarkdownFinish(r)
    \/ \E id \in LateIds : DeletePost(id) /\ UNCHANGED web

SpecWeb == InitEmptied /\ [][NextWeb]_vars

(* The renderer called with texts of several shapes, between calls of the    *)
(* store.                                                                    *)

RenderInputs == {<<>>, <<" ">>, <<"\n", "\t">>, <<"w">>, <<"#", " ", "w">>}

NextRender ==
    \/ \E text \in RenderInputs : RenderCall(text)
    \/ \E text \in RenderInputs : PreviewCall(text)
    \/ \E f \in CreateForms : CreateMarkdownPost(f, <<>>)
    \/ \E id \in LateIds : DeletePost(id) /\ UNCHANGED web

SpecRender == InitEmptied /\ [][NextRender]_vars

----------------------------------------------------------------------------
(* Values the claims compare against, written out by hand. *)

Comma == <<",">>

\* the upper-casing of each category of Categories
UpperCased(c) ==
    CASE c = <<"t","i","p","s">> -> <<"T","I","P","S">>
      [] c = <<"T","I","P","S">> -> <<"T","I","P","S">>
      [] c = <<"N","e","w","s">> -> <<"N","E","W","S">>
      [] c = <<"s","t","r","a","ß","e">> -> <<"S","T","R","A","S","S","E">>
      [] c = <<"a","-","1"," ","z">> -> <<"A","-","1"," ","Z">>
      [] c = <<>> -> <<>>

\* the comma-join of each list of MediaLists
CommaJoined(m) ==
    CASE m = <<>> -> <<>>
      [] m = <<MediaA>> -> MediaA
      [] m = <<MediaA, MediaB>> -> MediaA \o Comma \o MediaB
      [] m = <<MediaB, MediaA, MediaB>> -> MediaB \o Comma \o MediaA \o Comma \o MediaB

\* the rows of the store that carry the id
RowsWithId(id) == {r \in posts : r.id = id}

----------------------------------------------------------------------------
(* C1: create(...) returns a post that get(id) of the returned id, with no   *)
(* write in between, returns too; its title, color, size, excerpt, content   *)
(* and markdown_content are the ones given, its category is the upper-cased  *)
(* input and its media_files the comma-join of the given list.               *)
C1_CreateRoundTrip ==
    last.op = "create" =>
        /\ last.ret # None
        /\ \A p \in last.ret :
            /\ p.id = last.id
            /\ SelectById(posts, p.id) = last.ret
            /\ p.title = last.args.title
            /\ p.color = last.args.color
            /\ p.size = last.args.size
            /\ p.excerpt = last.args.excerpt
            /\ p.content = last.args.content
            /\ p.markdown_content = last.args.markdown_content
            /\ p.category = UpperCased(last.args.category)
            /\ p.media_files = CommaJoined(last.args.media_files)

\* a post with mixed texts and two media files was created and returned
C1_Witness ==
    /\ last.op = "create"
    /\ last.args.media_files = <<MediaA, MediaB>>
    /\ last.args.category = <<"s","t","r","a","ß","e">>
    /\ last.args.content # last.args.markdown_content
    /\ last.ret # None

----------------------------------------------------------------------------
(* C2: list_all() returns every post of the store exactly once, and no post  *)
(* of the list is followed by one with a later created_at.                   *)
C2_ListAllSorted ==
    LET lists == GetAllPosts(posts)
    IN
    /\ lists # {}
    /\ \A l \in lists :
        /\ Len(l) = Cardinality(posts)
        /\ {l[i] : i \in 1..Len(l)} = {RowToPost(r) : r \in posts}
        /\ \A i \in 1..(Len(l) - 1) : l[i].created_at >= l[i + 1].created_at

\* after a delete the store holds three posts or more, created in different
\* seconds, and the list begins with a later post than it ends with
C2_Witness ==
    /\ last.op = "delete"
    /\ Cardinality(posts) >= 3
    /\ \E l \in GetAllPosts(posts) : l[1].created_at > l[Len(l)].created_at

----------------------------------------------------------------------------
(* C3: update(id, ...) with an id that is not in the store returns None and  *)
(* leaves the set of posts and every field of every post as they were.       *)
C3_UpdateMissingStep ==
    (last'.op = "update" /\ RowsWithId(last'.id) = {}) =>
        (last'.ret = None /\ posts' = posts)

\* C3: every step that is an update of an id without a row returns None and
\* leaves the rows as they were
C3_UpdateMissing == [][C3_UpdateMissingStep]_vars

\* an update of an id that is not in a store of two posts or more returned None
C3_Witness ==
    /\ last.op = "update"
    /\ last.ret = None
    /\ RowsWithId(last.id) = {}
    /\ Cardinality(posts) >= 2

----------------------------------------------------------------------------
(* C4: delete(id) returns true exactly when a row with that id is in the     *)
(* store, and then removes that row and no other; it returns false and       *)
(* changes nothing otherwise; an id that was in the store and is gone is     *)
(* never in the store again, so every later delete(id) returns false.        *)
C4_DeleteStep ==
    /\ last'.op = "delete" =>
        /\ last'.ret = (RowsWithId(last'.id) # {})
        /\ Cardinality(RowsWithId(last'.id)) <= 1
        /\ posts' = posts \ RowsWithId(last'.id)
    /\ \A id \in everIds :
        RowsWithId(id) = {} => {r \in posts' : r.id = id} = {}

\* C4: every delete step returns whether it removed the one row of its id,
\* and no step brings back an id that is gone
C4_DeleteOnce == [][C4_DeleteStep]_vars

\* a delete of an id that was deleted before returned false on a store that
\* still holds posts
C4_Witness ==
    /\ last.op = "delete"
    /\ last.ret = FALSE
    /\ last.id \in everIds
    /\ posts # {}

----------------------------------------------------------------------------
(* C5: the read_time create and update store is "N min read" with            *)
(* N = max(1, floor(w / 200)), w the number of whitespace-separated words of *)
(* the content: 0, 199 and 200 words give 1, 400 and 401 words give 2.       *)

\* the minutes of a text of n words, n below 600
MinutesOfWords(n) == IF n < 400 THEN <<"1">> ELSE <<"2">>

C5_ReadTime ==
    (last.op \in {"create", "update"} /\ last.ret # None) =>
        \A p \in last.ret : \A r \in RowsWithId(p.id) :
            /\ r.read_time = p.read_time
            /\ \A n \in WordCounts :
                last.args.content = Words(n) =>
                    /\ p.read_time = MinutesOfWords(n) \o MinRead
                    /\ p.read_time = Decimal(IF n \div 200 > 1 THEN n \div 200 ELSE 1) \o MinRead
            /\ last.args.content \in {<<" ">>, <<"\n", "\t">>,
                                     <<" ", "w", "\n", "\n", "w", "w", " ">>} =>
                    p.read_time = <<"1">> \o MinRead

\* an update gave a post a content of 401 words, stored as "2 min read"
C5_Witness ==
    /\ last.op = "update"
    /\ last.args.content = Words(401)
    /\ \E p \in last.ret : p.read_time = <<"2"," ","m","i","n"," ","r","e","a","d">>

----------------------------------------------------------------------------
(* C6: the category of every stored post equals its own upper-casing;        *)
(* creating or updating a post with category "tips" stores and returns       *)
(* "TIPS".                                                                   *)

\* a text that upper-casing leaves as it is: no small letter in it
IsUpperCased(s) ==
    \A i \in 1..Len(s) :
        s[i] \notin {LowerLetters[k] : k \in 1..Len(LowerLetters)} \cup {"ß"}

C6_CategoryUpper ==
    /\ \A r \in posts : IsUpperCased(r.category)
    /\ (/\ last.op \in {"create", "update"}
        /\ last.args.category = <<"t","i","p","s">>
        /\ last.ret # None) =>
            \A p \in last.ret :
                /\ p.category = <<"T","I","P","S">>
                /\ \A r \in RowsWithId(p.id) : r.category = <<"T","I","P","S">>

\* a sample post of another category was updated with category "tips"
C6_Witness ==
    /\ last.op = "update"
    /\ last.args.category = <<"t","i","p","s">>
    /\ \E p \in last.ret : p.id = 2 /\ p.category = <<"T","I","P","S">>
    /\ \E r \in posts : r.category = <<"T","E","C","H","N","O","L","O","G","Y">>

----------------------------------------------------------------------------
(* C7: no two posts share an id, no operation changes the id of a post, and  *)
(* the id create assigns is the id of no post that is or ever was in the     *)
(* store.                                                                    *)

IdsOf(rows) == {r.id : r \in rows}

C7_IdsStep ==
    /\ \A r1 \in posts' : \A r2 \in posts' : r1.id = r2.id => r1 = r2
    /\ \A id \in IdsOf(posts') \ IdsOf(posts) :
        /\ id \notin everIds
        /\ last'.op \in {"create", "init"}
    /\ IdsOf(posts) \ IdsOf(posts') # {} => last'.op = "delete"
    /\ last'.op = "update" => IdsOf(posts') = IdsOf(posts)
    /\ last'.op = "create" =>
        /\ last'.id \notin everIds
        /\ IdsOf(posts') = IdsOf(posts) \cup {last'.id}

\* C7: after every step ids are unique, unchanged by updates, and new ids
\* are ids the store never held
C7_IdsUniqueStable == [][C7_IdsStep]_vars

\* a post was created after the post of the id before its own was deleted
C7_Witness ==
    /\ last.op = "create"
    /\ last.id - 1 \in everIds
    /\ RowsWithId(last.id - 1) = {}
    /\ RowsWithId(last.id) # {}

----------------------------------------------------------------------------
(* C8: update(id, ...) on an existing post leaves that post's id and         *)
(* created_at as they were and every other post unchanged in every field;    *)
(* create and delete change the created_at of no post that stays.            *)
C8_FrameStep ==
    /\ last'.op = "update" =>
        /\ \A r \in posts : r.id # last'.id => r \in posts'
        /\ \A r \in RowsWithId(last'.id) :
            \E r2 \in posts' : r2.id = r.id /\ r2.created_at = r.created_at
        /\ Cardinality(posts') = Cardinality(posts)
    /\ last'.op \in {"create", "delete", "update"} =>
        \A r \in posts : \A r2 \in posts' :
            r2.id = r.id => r2.created_at = r.created_at

\* C8: every update step keeps id and created_at of its post and every other
\* row; create and delete steps keep created_at of the rows that stay
C8_UpdateFrame == [][C8_FrameStep]_vars

\* a post of a store of three posts or more was updated in a later second
\* than the one it was created in
C8_Witness ==
    /\ last.op = "update"
    /\ Cardinality(posts) >= 3
    /\ \E r \in RowsWithId(last.id) : r.updated_at > r.created_at

----------------------------------------------------------------------------
(* C9 as stated: after every update of an existing post its updated_at is    *)
(* later than it was before the update.                                      *)
C9_StrictStep ==
    last'.op = "update" =>
        \A r \in RowsWithId(last'.id) : \A r2 \in posts' :
            r2.id = r.id => r2.updated_at > r.updated_at

\* C9 as stated: every update step of an existing post makes its updated_at
\* later than it was
C9_StrictlyLater == [][C9_StrictStep]_vars

(* C9, amended: after every update of an existing post its updated_at is     *)
(* the second the update ran in: not earlier than it was before the update,  *)
(* and later when the clock has moved on since the post was last written;    *)
(* updated_at is never earlier than created_at and never decreases (the      *)
(* clock not running backwards).                                             *)
C9_AdvanceStep ==
    /\ last'.op = "update" =>
        \A r \in RowsWithId(last'.id) : \A r2 \in posts' :
            r2.id = r.id =>
                /\ r2.updated_at >= r.updated_at
                /\ r2.updated_at = now
                /\ now > r.updated_at => r2.updated_at > r.updated_at
    /\ \A r \in posts : \A r2 \in posts' :
        r2.id = r.id => r2.updated_at >= r.updated_at
    /\ \A r2 \in posts' : r2.updated_at >= r2.created_at

\* C9, amended: every update step sets updated_at to the current second, not
\* earlier than before; updated_at never decreases, never precedes created_at
C9_UpdatedAtAdvances == [][C9_AdvanceStep]_vars

\* an update in a later second than the post's creation left updated_at
\* later than created_at
C9_Witness ==
    /\ last.op = "update"
    /\ \E r \in RowsWithId(last.id) : r.updated_at > r.created_at /\ r.updated_at = now

----------------------------------------------------------------------------
(* C10: initialize() raises nothing though the migrated columns exist; on a  *)
(* store of zero rows it inserts the three demonstration posts and nothing   *)
(* else; on a store of one row or more it leaves every post as it is; so a   *)
(* second call right after a first changes nothing.                          *)

\* the nine values an INSERT of a sample post names, as a row holds them
SampleValues(r) ==
    [title |-> r.title, category |-> r.category, color |-> r.color,
     size |-> r.size, excerpt |-> r.excerpt, content |-> r.content,
     markdown_content |-> r.markdown_content, media_files |-> r.media_files,
     read_time |-> r.read_time]

C10_InitStep ==
    last'.op = "init" =>
        /\ ~last'.raised
        /\ columns' = AllColumns
        /\ posts = {} =>
            /\ Cardinality(posts') = Len(SamplePosts)
            /\ {SampleValues(r) : r \in posts'} =
               {SamplePosts[i] : i \in 1..Len(SamplePosts)}
        /\ posts # {} => posts' = posts
        /\ posts' # {}

\* C10: every init_db step raises nothing, seeds exactly the three sample
\* posts into an empty store and leaves a store that has rows as it is
C10_InitIdempotent == [][C10_InitStep]_vars

\* initialize ran on a store whose posts had been updated and deleted, and
\* they are as they were
C10_Witness ==
    /\ last.op = "init"
    /\ ~last.raised
    /\ Cardinality(posts) # Len(SamplePosts)
    /\ \E r \in posts : r.title = "World" /\ r.id <= Len(SamplePosts)

----------------------------------------------------------------------------
\* the row whose insert was the last one among the rows of the store: ids
\* are handed out in increasing order and never again
LastCreated(rows) == CHOOSE r \in rows : \A q \in rows : q.id <= r.id

(* C11: get_latest() returns absence exactly when the store is empty, and    *)
(* otherwise the one post whose create or seeding insert happened last among *)
(* the posts in the store, which is the first element of list_all().         *)
C11_LatestIsLastCreated ==
    \A res \in GetLatestPost(posts) :
        /\ (res = None) <=> (posts = {})
        /\ posts # {} =>
            /\ res = Some(RowToPost(LastCreated(posts)))
            /\ \A l \in GetAllPosts(posts) : Some(l[1]) = res

----------------------------------------------------------------------------
(* C12: get(id) raises nothing; it returns a post exactly when a row with    *)
(* that id is in the store, and then that row's post, and None otherwise,    *)
(* also for an id whose row was deleted; it leaves the store as it was.      *)
C12_GetStep ==
    last'.op = "get" =>
        /\ ~last'.raised
        /\ (last'.ret # None) <=> (RowsWithId(last'.id) # {})
        /\ \A p \in last'.ret :
            /\ p.id = last'.id
            /\ \E r \in posts :
                /\ r.id = p.id
                /\ SampleValues(r) = SampleValues(p)
                /\ r.created_at = p.created_at
        /\ posts' = posts
        /\ columns' = columns
        /\ seq' = seq
        /\ everIds' = everIds

\* C12: every get_post_by_id step returns the post of the id's row or None
\* when there is no such row, raises nothing and writes nothing
C12_GetAbsence == [][C12_GetStep]_vars

\* get of an id whose row was deleted returned None while other rows are stored
C12_Witness ==
    /\ last.op = "get"
    /\ last.ret = None
    /\ ~last.raised
    /\ last.id \in everIds
    /\ posts # {}

----------------------------------------------------------------------------
(* C13: render_markdown gives the empty output for the empty text and for    *)
(* every text of nothing but whitespace; a call gives the output every       *)
(* earlier call with the same text gave, whatever ran in between, and        *)
(* changes nothing of the store or of the requests.                          *)
C13_RenderStep ==
    last'.op = "render" =>
        /\ Strip(last'.args) = <<>> => last'.ret = Some(<<>>)
        /\ \A pair \in rendered : pair[1] = last'.args => last'.ret = Some(pair[2])
        /\ UNCHANGED <<columns, posts, seq, now, everIds, requests, uuids>>

\* C13: every call of render_markdown maps empty and blank text to the empty
\* output, repeats the output of earlier calls with the same text and leaves
\* the state as it was
C13_RenderBlankEmptyPure == [][C13_RenderStep]_vars

----------------------------------------------------------------------------
\* the read_time of each content of WideInputs
ReadTimeLabel(content) ==
    IF content = LongRead THEN <<"2">> \o MinRead ELSE <<"1">> \o MinRead

(* C14: update(id, ...) of a post in the store returns a post, the one a     *)
(* following get(id) returns: its title, color, size, excerpt, content and   *)
(* markdown_content are the new ones, its category the upper-cased new one,  *)
(* its media_files the comma-join of the new list and its read_time the one  *)
(* of the new content.                                                       *)
C14_UpdateStep ==
    (last'.op = "update" /\ RowsWithId(last'.id) # {}) =>
        /\ last'.ret # None
        /\ \A p \in last'.ret :
            /\ p.id = last'.id
            /\ p.title = last'.args.title
            /\ p.color = last'.args.color
            /\ p.size = last'.args.size
            /\ p.excerpt = last'.args.excerpt
            /\ p.content = last'.args.content
            /\ p.markdown_content = last'.args.markdown_content
            /\ p.category = UpperCased(last'.args.category)
            /\ p.media_files = CommaJoined(last'.args.media_files)
            /\ p.read_time = ReadTimeLabel(last'.args.content)
            /\ \E r \in posts' :
                /\ r.id = last'.id
                /\ SampleValues(r) = SampleValues(p)
                /\ r.created_at = p.created_at
        /\ Cardinality({r \in posts' : r.id = last'.id}) = 1

\* C14: every update_post step on an id that has a row leaves that row with
\* the new values in every mutable field and returns it
C14_UpdateReplaces == [][C14_UpdateStep]_vars

\* an update gave a post a long content and returned it with the read_time
\* of that content
C14_Witness ==
    /\ last.op = "update"
    /\ last.args.content = LongRead
    /\ \E p \in last.ret : p.read_time = <<"2">> \o MinRead /\ p.title = "Hello"
    /\ \E r \in posts : r.id = last.id /\ r.content = LongRead

----------------------------------------------------------------------------
(* C15: in every reachable state the read_time of every post in the store,   *)
(* the sample posts of init_db included, is "N min read" with N the larger   *)
(* of 1 and the whole part of w / 200, w the number of words of its content. *)
C15_ReadTimeDerived ==
    \A r \in posts :
        LET w == WordCount(r.content)
            N == IF w \div WordsPerMinute >= 1 THEN w \div WordsPerMinute ELSE 1
        IN  r.read_time = Decimal(N) \o MinRead

----------------------------------------------------------------------------
(* C16: for every list of paths the upload loop can make and create or       *)
(* update is given, get_media_list() of the stored post is that list: the    *)
(* same paths in the same order, paths with a comma or a space at the end    *)
(* of their extension included.                                              *)
C16_MediaRoundTrip ==
    (last.op \in {"create", "update"} /\ last.ret # None) =>
        \A p \in last.ret :
            /\ Len(GetMediaList(p)) = Len(last.args.media_files)
            /\ GetMediaList(p) = last.args.media_files
            /\ \A r \in RowsWithId(p.id) : GetMediaList(r) = last.args.media_files

----------------------------------------------------------------------------
\* the paths of a media list
PathsOf(list) == {list[i] : i \in 1..Len(list)}

\* no request is between its read of the post and its update
AllCompleted(reqs) == \A r \in Requests : reqs[r].pc # "uploading"

\* once the update-markdown requests have completed, the media list of a post
\* they updated has every path a request read or saved
NoMediaLost(reqs, rows) ==
    AllCompleted(reqs) =>
        \A r \in Requests :
            (reqs[r].pc = "done" /\ reqs[r].status = 200) =>
                \A row \in {q \in rows : q.id = reqs[r].post_id} :
                    PathsOf(reqs[r].media_files) \subseteq PathsOf(GetMediaList(row))

\* a request that resumes from its uploads after the row of its post is gone
\* does not answer with success
NoSuccessOnDeleted ==
    \A r \in Requests :
        (/\ requests[r].pc = "uploading"
         /\ requests'[r].pc = "done"
         /\ RowsWithId(requests[r].post_id) = {}) => requests'[r].status # 200

(* C17: under every interleaving of update-markdown requests for one post,   *)
(* each reading the post's media list, awaiting its uploads and then calling *)
(* update, the media list of the post has, once the requests have completed, *)
(* every path it had before and every path a request saved; and a request    *)
(* whose post is deleted between its existence check and its update does not *)
(* report success.                                                           *)
C17_Step == NoMediaLost(requests', posts') /\ NoSuccessOnDeleted

\* C17: every step leaves no saved media path lost among completed requests
\* and no success reported for an update of a deleted post
C17_NoLostMedia == [][C17_Step]_vars

----------------------------------------------------------------------------
(* C18: when the editor is opened for a post that has a markdown source and  *)
(* its form is submitted as it was loaded, the post's markdown_content is    *)
(* afterwards the markdown source it had and its content the rendering of    *)
(* that source.                                                              *)
C18_EditStep ==
    \A r \in Requests : \A o \in requests[r].opened :
        (/\ requests[r].pc # "done"
         /\ requests'[r].pc = "done"
         /\ requests'[r].status = 200
         /\ HasMarkdown(o)) =>
            \A row \in {q \in posts' : q.id = o.id} :
                /\ row.markdown_content = o.markdown_content
                /\ row.content = RenderMarkdown(o.markdown_content)

\* C18: every update that submits the editor's form unchanged leaves the
\* markdown source of the post as it was and the content its rendering
C18_EditRoundTrip == [][C18_EditStep]_vars

====
